---- MODULE Spec2Model ----
(***************************************************************************)
(* Othello (othero/src/Game.tsx): the rules engine (isValidMove, makeMove,  *)
(* getValidMoves), the move-selection engine (getAIMove, minimax,           *)
(* evaluateBoard, countDiscs) and the Game component's state machine        *)
(* (handleMove, the AI timer of useEffect).                                 *)
(***************************************************************************)
EXTENDS Integers, Sequences, FiniteSets, TLC

VARIABLES
    board,          \* useState board (Game.tsx:20); the input board of a call
    currentPlayer,  \* useState currentPlayer (Game.tsx:21)
    aiLevel,        \* useState aiLevel (Game.tsx:22)
    isPlayerTurn,   \* useState isPlayerTurn (Game.tsx:23)
    timer,          \* the pending setTimeout closure of useEffect (Game.tsx:36)
    call,           \* the last call of an engine function: arguments and result
    heap            \* the row arrays in memory, by address (for aliasing)

vars == <<board, currentPlayer, aiLevel, isPlayerTurn, timer, call, heap>>

----------------------------------------------------------------------------
(* Data *)

BOARD_SIZE == 8

Idx == 0 .. (BOARD_SIZE - 1)

Players == {"black", "white"}

\* A cell of the string[][] board: '' (empty), 'black' or 'white'.
Empty == ""

CellValues == {Empty, "black", "white"}

\* player === 'black' ? 'white' : 'black'
Opponent(player) == IF player = "black" THEN "white" ELSE "black"

\* JavaScript truthiness of a cell value: '' is falsy (undefined is handled
\* where an out-of-range column is read).
Truthy(v) == v # Empty

\* null, as returned by getAIMove and minimax in place of a move.
null == [null |-> TRUE]

Move(x, y) == [x |-> x, y |-> y]

EmptyBoard == [y \in Idx |-> [x \in Idx |-> Empty]]

initializeBoard ==
    [EmptyBoard EXCEPT ![3][3] = "white", ![4][4] = "white",
                       ![3][4] = "black", ![4][3] = "black"]

DIRECTIONS ==
    << <<0, 1>>, <<1, 0>>, <<0, -1>>, <<-1, 0>>,
       <<1, 1>>, <<-1, -1>>, <<1, -1>>, <<-1, 1>> >>

----------------------------------------------------------------------------
(* Rules engine *)

\* ValidScan accepting the player's own disc right next to the target
\* (i >= 1 for i > 1).
RECURSIVE ValidScanAdjacentOwn(_, _, _, _, _, _, _)
ValidScanAdjacentOwn(b, x, y, dx, dy, player, i) ==
    LET nx == x + dx * i
        ny == y + dy * i
    IN  IF \/ nx < 0
           \/ ny < 0
           \/ nx >= BOARD_SIZE
           \/ ny >= BOARD_SIZE
           \/ ~Truthy(b[ny][nx])
        THEN FALSE
        ELSE IF b[ny][nx] = Opponent(player)
             THEN ValidScanAdjacentOwn(b, x, y, dx, dy, player, i + 1)
             ELSE IF b[ny][nx] = player
                  THEN i >= 1
                  ELSE FALSE

\* The while loop of isValidMove for one direction, from step i: TRUE when it
\* ends in `return true`, FALSE when it ends in a break.
RECURSIVE ValidScan(_, _, _, _, _, _, _)
ValidScan(b, x, y, dx, dy, player, i) ==
    LET nx == x + dx * i
        ny == y + dy * i
    IN  IF \/ nx < 0
           \/ ny < 0
           \/ nx >= BOARD_SIZE
           \/ ny >= BOARD_SIZE
           \/ ~Truthy(b[ny][nx])
        THEN FALSE
        ELSE IF b[ny][nx] = Opponent(player)
             THEN ValidScan(b, x, y, dx, dy, player, i + 1)
             ELSE IF b[ny][nx] = player
                  THEN i > 1
                  ELSE FALSE

\* The for loop of isValidMove over DIRECTIONS, from direction k.
RECURSIVE ValidDirs(_, _, _, _, _)
ValidDirs(b, x, y, player, k) ==
    IF k > Len(DIRECTIONS)
    THEN FALSE
    ELSE IF ValidScan(b, x, y, DIRECTIONS[k][1], DIRECTIONS[k][2], player, 1)
         THEN TRUE
         ELSE ValidDirs(b, x, y, player, k + 1)

\* board[y][x] of line 88 throws a TypeError when board[y] is undefined.
isValidMoveThrows(b, x, y) == y \notin Idx

\* board[y][x] of line 88 where board[y] is a row: undefined (falsy) for a
\* column outside the row.
TargetTruthy(b, x, y) == IF x \in Idx THEN Truthy(b[y][x]) ELSE FALSE

\* isValidMove's return value (y a row of the board).
isValidMove(b, x, y, player) ==
    IF TargetTruthy(b, x, y)
    THEN FALSE
    ELSE ValidDirs(b, x, y, player, 1)

\* FlipAll leaving the last disc of toFlip unflipped (j >= Len for j > Len).
RECURSIVE FlipAllButLast(_, _, _, _, _)
FlipAllButLast(h, ref, toFlip, player, j) ==
    IF j >= Len(toFlip)
    THEN h
    ELSE FlipAllButLast([h EXCEPT ![ref[toFlip[j].y]][toFlip[j].x] = player],
                        ref, toFlip, player, j + 1)

\* for (const pos of toFlip) newBoard[pos.y][pos.x] = player, the rows of
\* newBoard being the heap rows ref[0..7].
RECURSIVE FlipAll(_, _, _, _, _)
FlipAll(h, ref, toFlip, player, j) ==
    IF j > Len(toFlip)
    THEN h
    ELSE FlipAll([h EXCEPT ![ref[toFlip[j].y]][toFlip[j].x] = player],
                 ref, toFlip, player, j + 1)

\* FlipScan flipping a run that ends at the board's edge or at an empty cell.
RECURSIVE FlipScanOpenRun(_, _, _, _, _, _, _, _, _)
FlipScanOpenRun(h, ref, x, y, dx, dy, player, i, toFlip) ==
    LET nx == x + dx * i
        ny == y + dy * i
    IN  IF \/ nx < 0
           \/ ny < 0
           \/ nx >= BOARD_SIZE
           \/ ny >= BOARD_SIZE
           \/ ~Truthy(h[ref[ny]][nx])
        THEN FlipAll(h, ref, toFlip, player, 1)
        ELSE IF h[ref[ny]][nx] = Opponent(player)
             THEN FlipScanOpenRun(h, ref, x, y, dx, dy, player, i + 1,
                                  Append(toFlip, Move(nx, ny)))
             ELSE IF h[ref[ny]][nx] = player
                  THEN FlipAll(h, ref, toFlip, player, 1)
                  ELSE h

\* The while loop of makeMove for one direction, from step i with the toFlip
\* collected so far; the value is the memory after the loop.
RECURSIVE FlipScan(_, _, _, _, _, _, _, _, _)
FlipScan(h, ref, x, y, dx, dy, player, i, toFlip) ==
    LET nx == x + dx * i
        ny == y + dy * i
    IN  IF \/ nx < 0
           \/ ny < 0
           \/ nx >= BOARD_SIZE
           \/ ny >= BOARD_SIZE
           \/ ~Truthy(h[ref[ny]][nx])
        THEN h
        ELSE IF h[ref[ny]][nx] = Opponent(player)
             THEN FlipScan(h, ref, x, y, dx, dy, player, i + 1,
                           Append(toFlip, Move(nx, ny)))
             ELSE IF h[ref[ny]][nx] = player
                  THEN FlipAll(h, ref, toFlip, player, 1)
                  ELSE h

\* The for loop of makeMove over DIRECTIONS, from direction k.
RECURSIVE FlipDirs(_, _, _, _, _, _)
FlipDirs(h, ref, x, y, player, k) ==
    IF k > Len(DIRECTIONS)
    THEN h
    ELSE FlipDirs(FlipScan(h, ref, x, y, DIRECTIONS[k][1], DIRECTIONS[k][2],
                           player, 1, <<>>),
                  ref, x, y, player, k + 1)

\* makeMove after the copy: newBoard[y][x] = player, then the flips.  newBoard
\* is the array of the rows at addresses ref[0..7] of memory h.
PlaceAndFlip(h, ref, x, y, player) ==
    FlipDirs([h EXCEPT ![ref[y]][x] = player], ref, x, y, player, 1)

\* A board value is its own memory: row y at address y.
RowIds == [y \in Idx |-> y]

\* board.map((row) => row.slice()) on values: a board equal to the input.
CopyBoard(b) == [y \in Idx |-> [x \in Idx |-> b[y][x]]]

\* makeMove's return value.
makeMove(b, x, y, player) == PlaceAndFlip(CopyBoard(b), RowIds, x, y, player)

\* The cells in the order the nested loops of getValidMoves visit them: y the
\* outer loop, x the inner one.
LoopCells ==
    [n \in 1 .. BOARD_SIZE * BOARD_SIZE |->
        Move((n - 1) % BOARD_SIZE, (n - 1) \div BOARD_SIZE)]

\* getValidMoves with the loops exchanged (x outer, y inner).
ValidMovesColumnMajor(b, player) ==
    SelectSeq([n \in 1 .. BOARD_SIZE * BOARD_SIZE |->
                  Move((n - 1) \div BOARD_SIZE, (n - 1) % BOARD_SIZE)],
              LAMBDA m : isValidMove(b, m.x, m.y, player))

\* getValidMoves: the cells of the loops for which isValidMove is true, pushed
\* in the order visited.
getValidMoves(b, player) ==
    SelectSeq(LoopCells, LAMBDA m : isValidMove(b, m.x, m.y, player))

\* board.flat().filter((cell) => cell === player).length
countDiscs(b, player) ==
    Cardinality({c \in Idx \X Idx : b[c[2]][c[1]] = player})

evaluateBoard(b, player) ==
    countDiscs(b, player) - countDiscs(b, Opponent(player))

----------------------------------------------------------------------------
(* Move-selection engine *)

\* The callback of validMoves.reduce (no initial value) from index k, bestMove
\* the accumulator: score > bestScore ? move : bestMove.
RECURSIVE GreedyLastBest(_, _, _, _, _)
GreedyLastBest(b, player, validMoves, k, bestMove) ==
    IF k > Len(validMoves)
    THEN bestMove
    ELSE LET move == validMoves[k]
             score == countDiscs(makeMove(b, move.x, move.y, player), player)
             bestScore ==
                 countDiscs(makeMove(b, bestMove.x, bestMove.y, player), player)
         IN  IF score >= bestScore
             THEN GreedyLastBest(b, player, validMoves, k + 1, move)
             ELSE GreedyLastBest(b, player, validMoves, k + 1, bestMove)

RECURSIVE GreedyFrom(_, _, _, _, _)
GreedyFrom(b, player, validMoves, k, bestMove) ==
    IF k > Len(validMoves)
    THEN bestMove
    ELSE LET move == validMoves[k]
             score == countDiscs(makeMove(b, move.x, move.y, player), player)
             bestScore ==
                 countDiscs(makeMove(b, bestMove.x, bestMove.y, player), player)
         IN  IF score > bestScore
             THEN GreedyFrom(b, player, validMoves, k + 1, move)
             ELSE GreedyFrom(b, player, validMoves, k + 1, bestMove)

\* Infinity: above every score, a score being a difference of disc counts of
\* a board of BOARD_SIZE * BOARD_SIZE cells.
Infinity == BOARD_SIZE * BOARD_SIZE + 1

\* let bestScore = 0
InitialBestZero(maximizingPlayer) == 0

\* let bestScore = maximizingPlayer ? -Infinity : Infinity
InitialBest(maximizingPlayer) ==
    IF maximizingPlayer THEN 0 - Infinity ELSE Infinity

RECURSIVE minimax(_, _, _, _)
RECURSIVE MinimaxLoop(_, _, _, _, _, _, _, _)

\* The for loop of minimax over validMoves, from index k with the bestScore and
\* bestMove so far.
MinimaxLoop(b, player, depth, maximizingPlayer, validMoves, k, bestScore, bestMove) ==
    IF k > Len(validMoves)
    THEN [score |-> bestScore, move |-> bestMove]
    ELSE LET move == validMoves[k]
             newBoard == makeMove(b, move.x, move.y, player)
             opponent == Opponent(player)
             result == minimax(newBoard, opponent, depth - 1, ~maximizingPlayer)
             better == IF maximizingPlayer
                       THEN result.score > bestScore
                       ELSE result.score < bestScore
         IN  IF better
             THEN MinimaxLoop(b, player, depth, maximizingPlayer, validMoves,
                              k + 1, result.score, move)
             ELSE MinimaxLoop(b, player, depth, maximizingPlayer, validMoves,
                              k + 1, bestScore, bestMove)

\* A frame whose side to move has no legal move passes the turn and searches on.
minimaxPassTurn(b, player, depth, maximizingPlayer) ==
    IF depth = 0
    THEN [score |-> evaluateBoard(b, player), move |-> null]
    ELSE LET validMoves == getValidMoves(b, player)
         IN  IF Len(validMoves) = 0
             THEN [score |-> minimax(b, Opponent(player), depth - 1,
                                     ~maximizingPlayer).score,
                   move |-> null]
             ELSE MinimaxLoop(b, player, depth, maximizingPlayer, validMoves, 1,
                              InitialBest(maximizingPlayer), null)

minimax(b, player, depth, maximizingPlayer) ==
    IF depth = 0
    THEN [score |-> evaluateBoard(b, player), move |-> null]
    ELSE LET validMoves == getValidMoves(b, player)
         IN  IF Len(validMoves) = 0
             THEN [score |-> evaluateBoard(b, player), move |-> null]
             ELSE MinimaxLoop(b, player, depth, maximizingPlayer, validMoves, 1,
                              InitialBest(maximizingPlayer), null)

\* getAIMove, rnd the value of Math.floor(Math.random() * validMoves.length):
\* one of 0 .. validMoves.length - 1.
getAIMove(b, player, level, rnd) ==
    LET validMoves == getValidMoves(b, player)
    IN  IF Len(validMoves) = 0
        THEN null
        ELSE CASE level = 1 -> validMoves[rnd + 1]
               [] level = 2 -> GreedyFrom(b, player, validMoves, 2, validMoves[1])
               [] level = 3 -> minimax(b, player, 1, TRUE).move
               [] level = 4 -> minimax(b, player, 2, TRUE).move
               [] level = 5 -> minimax(b, player, 3, TRUE).move
               [] OTHER -> validMoves[1]

\* The <option> values of the level <select>.
Levels == 1 .. 5

----------------------------------------------------------------------------
(* The engine on boards in memory: a board is an array ref of the addresses  *)
(* of its 8 row arrays in the memory h, the sequence of the row arrays       *)
(* allocated so far (the address of a row is its index).                     *)

\* The board value held at ref.
Deref(h, ref) == [y \in Idx |-> h[ref[y]]]

\* board.map((row) => row): a new outer array of the same rows.
MapSameRows(h, ref) == [heap |-> h, ref |-> ref]

\* board.map((row) => row.slice()): each row copied to a new row array.
MapSlice(h, ref) ==
    [heap |-> h \o [a \in 1 .. BOARD_SIZE |-> h[ref[a - 1]]],
     ref |-> [y \in Idx |-> Len(h) + y + 1]]

\* makeMove: the memory after the call and the board returned.
makeMoveAt(h, ref, x, y, player) ==
    LET newBoard == MapSlice(h, ref)
    IN  [heap |-> PlaceAndFlip(newBoard.heap, newBoard.ref, x, y, player),
         ref |-> newBoard.ref]

\* The reduce of getAIMove level 2: the memory after it and the move.
RECURSIVE GreedyAt(_, _, _, _, _, _)
GreedyAt(h, ref, player, validMoves, k, bestMove) ==
    IF k > Len(validMoves)
    THEN [heap |-> h, ret |-> bestMove]
    ELSE LET move == validMoves[k]
             newBoard == makeMoveAt(h, ref, move.x, move.y, player)
             score == countDiscs(Deref(newBoard.heap, newBoard.ref), player)
             bestBoard ==
                 makeMoveAt(newBoard.heap, ref, bestMove.x, bestMove.y, player)
             bestScore == countDiscs(Deref(bestBoard.heap, bestBoard.ref), player)
         IN  IF score > bestScore
             THEN GreedyAt(bestBoard.heap, ref, player, validMoves, k + 1, move)
             ELSE GreedyAt(bestBoard.heap, ref, player, validMoves, k + 1,
                           bestMove)

RECURSIVE minimaxAt(_, _, _, _, _)
RECURSIVE MinimaxLoopAt(_, _, _, _, _, _, _, _, _)

MinimaxLoopAt(h, ref, player, depth, maximizingPlayer, validMoves, k, bestScore, bestMove) ==
    IF k > Len(validMoves)
    THEN [heap |-> h, score |-> bestScore, move |-> bestMove]
    ELSE LET move == validMoves[k]
             newBoard == makeMoveAt(h, ref, move.x, move.y, player)
             opponent == Opponent(player)
             result == minimaxAt(newBoard.heap, newBoard.ref, opponent,
                                 depth - 1, ~maximizingPlayer)
             better == IF maximizingPlayer
                       THEN result.score > bestScore
                       ELSE result.score < bestScore
         IN  IF better
             THEN MinimaxLoopAt(result.heap, ref, player, depth,
                                maximizingPlayer, validMoves, k + 1,
                                result.score, move)
             ELSE MinimaxLoopAt(result.heap, ref, player, depth,
                                maximizingPlayer, validMoves, k + 1,
                                bestScore, bestMove)

minimaxAt(h, ref, player, depth, maximizingPlayer) ==
    IF depth = 0
    THEN [heap |-> h, score |-> evaluateBoard(Deref(h, ref), player),
          move |-> null]
    ELSE LET validMoves == getValidMoves(Deref(h, ref), player)
         IN  IF Len(validMoves) = 0
             THEN [heap |-> h, score |-> evaluateBoard(Deref(h, ref), player),
                   move |-> null]
             ELSE MinimaxLoopAt(h, ref, player, depth, maximizingPlayer,
                                validMoves, 1, InitialBest(maximizingPlayer),
                                null)

\* getAIMove: the memory after the call and the move (or null) returned.
getAIMoveAt(h, ref, player, level, rnd) ==
    LET validMoves == getValidMoves(Deref(h, ref), player)
        found(r) == [heap |-> r.heap, ret |-> r.move]
    IN  IF Len(validMoves) = 0
        THEN [heap |-> h, ret |-> null]
        ELSE CASE level = 1 -> [heap |-> h, ret |-> validMoves[rnd + 1]]
               [] level = 2 ->
                     GreedyAt(h, ref, player, validMoves, 2, validMoves[1])
               [] level = 3 -> found(minimaxAt(h, ref, player, 1, TRUE))
               [] level = 4 -> found(minimaxAt(h, ref, player, 2, TRUE))
               [] level = 5 -> found(minimaxAt(h, ref, player, 3, TRUE))
               [] OTHER -> [heap |-> h, ret |-> validMoves[1]]

----------------------------------------------------------------------------
(* Calls of the engine's functions on drawn inputs *)

NoCall == [op |-> "none"]

NoTimer == [set |-> FALSE]

\* The input boards: initializeBoard(), and every assignment of cell values to
\* the first MaxSeedCells cells of SeedCells (a block in the corner (0,0), or
\* its mirror image in the corner (7,7)) on an otherwise empty board.
MaxSeedCells == 5

SeedCells ==
    << <<0, 0>>, <<1, 0>>, <<2, 0>>, <<1, 1>>, <<2, 1>>, <<0, 1>>,
       <<0, 2>>, <<1, 2>>, <<2, 2>> >>

SeedBoard(f, mirror) ==
    [y \in Idx |-> [x \in Idx |->
        LET at == {n \in DOMAIN f :
                     IF mirror
                     THEN SeedCells[n] = <<BOARD_SIZE - 1 - x, BOARD_SIZE - 1 - y>>
                     ELSE SeedCells[n] = <<x, y>>}
        IN  IF at = {} THEN Empty ELSE f[CHOOSE n \in at : TRUE]]]

SeedBoards(n) == {SeedBoard(f, m) : f \in [1 .. n -> CellValues], m \in BOOLEAN}

InputBoards == {initializeBoard} \cup SeedBoards(MaxSeedCells)

\* Coordinates a caller may pass: the board's, and MaxOffBoard beyond each edge.
MaxOffBoard == 1

Coord == (0 - MaxOffBoard) .. (BOARD_SIZE - 1 + MaxOffBoard)

InitCalls(boards) ==
    /\ board \in boards
    /\ currentPlayer = "black"
    /\ aiLevel = 1
    /\ isPlayerTurn = TRUE
    /\ timer = NoTimer
    /\ call = NoCall
    /\ heap = <<>>

CallIsValidMove ==
    /\ call = NoCall
    /\ \E x \in Coord, y \in Coord, player \in Players :
          call' = IF isValidMoveThrows(board, x, y)
                  THEN [op |-> "isValidMove", x |-> x, y |-> y,
                        player |-> player, threw |-> TRUE, ret |-> FALSE]
                  ELSE [op |-> "isValidMove", x |-> x, y |-> y,
                        player |-> player, threw |-> FALSE,
                        ret |-> isValidMove(board, x, y, player)]
    /\ UNCHANGED <<board, currentPlayer, aiLevel, isPlayerTurn, timer, heap>>

CallMakeMove ==
    /\ call = NoCall
    /\ \E x \in Idx, y \in Idx, player \in Players :
          call' = [op |-> "makeMove", x |-> x, y |-> y, player |-> player,
                   ret |-> makeMove(board, x, y, player)]
    /\ UNCHANGED <<board, currentPlayer, aiLevel, isPlayerTurn, timer, heap>>

CallGetValidMoves ==
    /\ call = NoCall
    /\ \E player \in Players :
          call' = [op |-> "getValidMoves", player |-> player,
                   ret |-> getValidMoves(board, player)]
    /\ UNCHANGED <<board, currentPlayer, aiLevel, isPlayerTurn, timer, heap>>

NextRules == CallIsValidMove \/ CallMakeMove \/ CallGetValidMoves

SpecRules == InitCalls(InputBoards) /\ [][NextRules]_vars

\* The values Math.floor(Math.random() * n) can take.
RandomIndexes(n) == IF n = 0 THEN {0} ELSE 0 .. (n - 1)

CallGetAIMove ==
    /\ call = NoCall
    /\ \E player \in Players, level \in Levels :
          \E rnd \in IF level = 1
                     THEN RandomIndexes(Len(getValidMoves(board, player)))
                     ELSE {0} :
             call' = [op |-> "getAIMove", player |-> player, level |-> level,
                      rnd |-> rnd,
                      ret |-> getAIMove(board, player, level, rnd)]
    /\ UNCHANGED <<board, currentPlayer, aiLevel, isPlayerTurn, timer, heap>>

\* The boards getAIMove is called on: initializeBoard() and the seed boards of
\* MaxAISeedCells cells, and the boards that follow when the move returned to
\* the player to move is applied, up to MaxAIDiscs discs.
MaxAISeedCells == 3

MaxAIDiscs == 6

\* The caller applies the move getAIMove returned to the player to move
\* (Game.tsx:37-42) and the turn passes to the other player.
PlayAIMove ==
    /\ call.op = "getAIMove"
    /\ call.ret # null
    /\ call.player = currentPlayer
    /\ countDiscs(board, "black") + countDiscs(board, "white") < MaxAIDiscs
    /\ board' = makeMove(board, call.ret.x, call.ret.y, currentPlayer)
    /\ currentPlayer' = Opponent(currentPlayer)
    /\ call' = NoCall
    /\ UNCHANGED <<aiLevel, isPlayerTurn, timer, heap>>

NextAI == CallGetAIMove \/ PlayAIMove

SpecAI ==
    InitCalls({initializeBoard} \cup SeedBoards(MaxAISeedCells)) /\ [][NextAI]_vars

\* Frames of minimax: a call with each remaining depth 0 .. MaxDepth (getAIMove
\* starts at depth 1, 2 or 3 and each frame calls the next with depth - 1) and
\* each value of maximizingPlayer, on initializeBoard() and the seed boards of
\* MaxMinimaxSeedCells cells.
MaxDepth == 3

MaxMinimaxSeedCells == 3

CallMinimax ==
    /\ call = NoCall
    /\ \E player \in Players, depth \in 0 .. MaxDepth,
          maximizingPlayer \in BOOLEAN :
          call' = [op |-> "minimax", player |-> player, depth |-> depth,
                   maximizingPlayer |-> maximizingPlayer,
                   ret |-> minimax(board, player, depth, maximizingPlayer)]
    /\ UNCHANGED <<board, currentPlayer, aiLevel, isPlayerTurn, timer, heap>>

NextMinimax == CallMinimax

SpecMinimax ==
    InitCalls({initializeBoard} \cup SeedBoards(MaxMinimaxSeedCells))
        /\ [][NextMinimax]_vars

\* Calls on a board in memory: the input board's rows are at the addresses
\* InputRows of heap, and the variable board keeps the value they held before
\* the call.
MaxHeapSeedCells == 3

InputRows == [y \in Idx |-> y + 1]

InitHeap ==
    /\ board \in {initializeBoard} \cup SeedBoards(MaxHeapSeedCells)
    /\ heap = [a \in 1 .. BOARD_SIZE |-> board[a - 1]]
    /\ currentPlayer = "black"
    /\ aiLevel = 1
    /\ isPlayerTurn = TRUE
    /\ timer = NoTimer
    /\ call = NoCall

CallMakeMoveAt ==
    /\ call = NoCall
    /\ \E x \in Idx, y \in Idx, player \in Players :
          \E r \in {makeMoveAt(heap, InputRows, x, y, player)} :
              /\ heap' = r.heap
              /\ call' = [op |-> "makeMove", x |-> x, y |-> y,
                          player |-> player, ref |-> r.ref]
    /\ UNCHANGED <<board, currentPlayer, aiLevel, isPlayerTurn, timer>>

CallGetAIMoveAt ==
    /\ call = NoCall
    /\ \E player \in Players, level \in Levels :
          \E rnd \in IF level = 1
                     THEN RandomIndexes(Len(getValidMoves(board, player)))
                     ELSE {0} :
             \E r \in {getAIMoveAt(heap, InputRows, player, level, rnd)} :
                 /\ heap' = r.heap
                 /\ call' = [op |-> "getAIMove", player |-> player,
                             level |-> level, rnd |-> rnd, ret |-> r.ret]
    /\ UNCHANGED <<board, currentPlayer, aiLevel, isPlayerTurn, timer>>

NextHeap == CallMakeMoveAt \/ CallGetAIMoveAt

SpecHeap == InitHeap /\ [][NextHeap]_vars

----------------------------------------------------------------------------
(* The Game component *)

\* In the Game component call records the last event handled and `before`, the
\* number of discs the displayed board held when the event arrived.
Shown(b) == countDiscs(b, "black") + countDiscs(b, "white")

\* Clicks are taken while the displayed board holds fewer than MaxGameDiscs.
MaxGameDiscs == 6

InitGame ==
    /\ board = initializeBoard
    /\ currentPlayer = "black"
    /\ aiLevel = 1
    /\ isPlayerTurn = TRUE
    /\ timer = NoTimer
    /\ call = NoCall
    /\ heap = <<>>

\* A click on square (x,y): handleMove of the latest render, and the effect of
\* the render that follows.  The three setters are batched into one render;
\* the effect's dependency is [isPlayerTurn], so it runs - and sets the timer,
\* whose callback closes over that render's board, currentPlayer and aiLevel -
\* only when isPlayerTurn has changed.
handleMove(x, y) ==
    IF ~isValidMove(board, x, y, currentPlayer)
    THEN /\ call' = [op |-> "handleMove", accepted |-> FALSE,
                     before |-> Shown(board)]
         /\ UNCHANGED <<board, currentPlayer, aiLevel, isPlayerTurn, timer, heap>>
    ELSE /\ board' = makeMove(board, x, y, currentPlayer)
         /\ currentPlayer' = Opponent(currentPlayer)
         /\ isPlayerTurn' = FALSE
         /\ timer' = IF isPlayerTurn
                     THEN [set |-> TRUE, board |-> board',
                           currentPlayer |-> currentPlayer',
                           aiLevel |-> aiLevel]
                     ELSE timer
         /\ call' = [op |-> "handleMove", accepted |-> TRUE,
                     before |-> Shown(board)]
         /\ UNCHANGED <<aiLevel, heap>>

Click ==
    /\ Shown(board) < MaxGameDiscs
    /\ \E x \in Idx, y \in Idx : handleMove(x, y)

\* The setTimeout callback of the effect, 500 ms after it was set: it reads the
\* board, currentPlayer and aiLevel of the render that set it.
TimerFires ==
    /\ timer.set
    /\ \E rnd \in IF timer.aiLevel = 1
                  THEN RandomIndexes(
                           Len(getValidMoves(timer.board, timer.currentPlayer)))
                  ELSE {0} :
          \E aiMove \in {getAIMove(timer.board, timer.currentPlayer,
                                   timer.aiLevel, rnd)} :
              /\ board' = IF aiMove # null
                          THEN makeMove(timer.board, aiMove.x, aiMove.y,
                                        timer.currentPlayer)
                          ELSE board
              /\ call' = [op |-> "timer", move |-> aiMove,
                          before |-> Shown(board)]
    /\ currentPlayer' = Opponent(timer.currentPlayer)
    /\ isPlayerTurn' = TRUE
    /\ timer' = NoTimer
    /\ UNCHANGED <<aiLevel, heap>>

\* onChange of the level <select>.
SetAiLevel ==
    /\ \E level \in Levels :
          /\ level # aiLevel
          /\ aiLevel' = level
    /\ call' = [op |-> "setAiLevel", before |-> Shown(board)]
    /\ UNCHANGED <<board, currentPlayer, isPlayerTurn, timer, heap>>

NextGame == Click \/ TimerFires \/ SetAiLevel

SpecGame == InitGame /\ [][NextGame]_vars

----------------------------------------------------------------------------
(* The rules of the game, stated on the board alone *)

InBoard(x, y) == x \in Idx /\ y \in Idx

\* The 8 compass offsets {-1,0,1}^2 \ {(0,0)}.
Compass == {d \in {-1, 0, 1} \X {-1, 0, 1} : d # <<0, 0>>}

\* From (x,y) in direction d: n opponent discs in a row, then a disc of player.
Brackets(b, x, y, d, player, n) ==
    /\ \A j \in 1 .. n :
          /\ InBoard(x + j * d[1], y + j * d[2])
          /\ b[y + j * d[2]][x + j * d[1]] = Opponent(player)
    /\ InBoard(x + (n + 1) * d[1], y + (n + 1) * d[2])
    /\ b[y + (n + 1) * d[2]][x + (n + 1) * d[1]] = player

Capturing(b, x, y, player) ==
    \E d \in Compass : \E n \in 1 .. BOARD_SIZE : Brackets(b, x, y, d, player, n)

\* The opponent discs bracketed from (x,y), all directions together, as <<x,y>>.
Bracketed(b, x, y, player) ==
    UNION {IF Brackets(b, x, y, dn[1], player, dn[2])
           THEN {<<x + j * dn[1][1], y + j * dn[1][2]>> : j \in 1 .. dn[2]}
           ELSE {} : dn \in Compass \X (1 .. BOARD_SIZE)}

Discs(b) == Cardinality({c \in Idx \X Idx : b[c[2]][c[1]] # Empty})

DiscsOf(b, player) == Cardinality({c \in Idx \X Idx : b[c[2]][c[1]] = player})

\* C1: on an in-range cell isValidMove returns true iff the cell is Empty and
\* in at least one of the 8 directions a run of one or more opponent discs next
\* to the cell is immediately followed by a disc of the player.
C1_LegalIffBrackets ==
    (call.op = "isValidMove" /\ InBoard(call.x, call.y)) =>
        /\ ~call.threw
        /\ call.ret = (/\ board[call.y][call.x] = Empty
                       /\ Capturing(board, call.x, call.y, call.player))

\* A legal move found that captures a run of two discs.
C1_Witness ==
    /\ call.op = "isValidMove"
    /\ InBoard(call.x, call.y)
    /\ call.ret
    /\ \E d \in Compass : Brackets(board, call.x, call.y, d, call.player, 2)

\* C2: on a legal move makeMove adds exactly one disc, the mover gains 1 + f
\* discs and the opponent loses f, f >= 1 the number of bracketed opponent
\* discs of all directions; every other cell keeps its value.
C2_Conservation ==
    (call.op = "makeMove" /\ isValidMove(board, call.x, call.y, call.player)) =>
        LET fl == Bracketed(board, call.x, call.y, call.player)
            f == Cardinality(fl)
        IN  /\ f >= 1
            /\ Discs(call.ret) = Discs(board) + 1
            /\ DiscsOf(call.ret, call.player)
                  = DiscsOf(board, call.player) + 1 + f
            /\ DiscsOf(call.ret, Opponent(call.player))
                  = DiscsOf(board, Opponent(call.player)) - f
            /\ \A c \in Idx \X Idx :
                  (c # <<call.x, call.y>> /\ c \notin fl) =>
                      call.ret[c[2]][c[1]] = board[c[2]][c[1]]

\* A legal move applied that captures in two directions at once.
C2_Witness ==
    /\ call.op = "makeMove"
    /\ isValidMove(board, call.x, call.y, call.player)
    /\ Cardinality({d \in Compass : \E n \in 1 .. BOARD_SIZE :
          Brackets(board, call.x, call.y, d, call.player, n)}) >= 2
    /\ Cardinality(Bracketed(board, call.x, call.y, call.player)) >= 2

\* C3: for a target with x or y outside 0..7 isValidMove returns false and
\* does not throw.
C3_OutOfRangeRejected ==
    (call.op = "isValidMove" /\ ~InBoard(call.x, call.y)) =>
        (~call.threw /\ call.ret = FALSE)

\* C4 as claimed: on an in-range cell where isValidMove is false makeMove
\* returns the input board with only the target cell set to the player's
\* colour.
C4_IllegalOnlyPlaces ==
    (call.op = "makeMove" /\ ~isValidMove(board, call.x, call.y, call.player)) =>
        call.ret = [board EXCEPT ![call.y][call.x] = call.player]

\* C4 amended: on an in-range cell where isValidMove is false makeMove sets the
\* target cell to the player's colour and flips exactly the opponent discs
\* bracketed from it; there are none when the target cell was Empty, so only
\* then is the result the input board with the target cell set.
C4_IllegalPlacesAndFlipsBracketed ==
    (call.op = "makeMove" /\ ~isValidMove(board, call.x, call.y, call.player)) =>
        LET fl == Bracketed(board, call.x, call.y, call.player)
        IN  /\ call.ret[call.y][call.x] = call.player
            /\ \A c \in Idx \X Idx :
                  c # <<call.x, call.y>> =>
                      call.ret[c[2]][c[1]] =
                          IF c \in fl THEN call.player ELSE board[c[2]][c[1]]
            /\ board[call.y][call.x] = Empty =>
                  /\ fl = {}
                  /\ call.ret = [board EXCEPT ![call.y][call.x] = call.player]

\* An illegal move applied to an Empty cell next to an opponent run that is not
\* closed, and one applied to an occupied cell.
C4_Witness ==
    /\ call.op = "makeMove"
    /\ ~isValidMove(board, call.x, call.y, call.player)
    /\ board[call.y][call.x] = Empty
    /\ \E d \in Compass :
          /\ InBoard(call.x + 2 * d[1], call.y + 2 * d[2])
          /\ board[call.y + d[2]][call.x + d[1]] = Opponent(call.player)
          /\ board[call.y + 2 * d[2]][call.x + 2 * d[1]] = Opponent(call.player)

\* C9: getValidMoves returns exactly the cells where isValidMove holds, each
\* once, in row-major order (increasing y, increasing x within a row).
C9_ValidMovesRowMajor ==
    call.op = "getValidMoves" =>
        /\ {call.ret[k] : k \in 1 .. Len(call.ret)}
              = {Move(c[1], c[2]) : c \in
                    {c \in Idx \X Idx : isValidMove(board, c[1], c[2], call.player)}}
        /\ \A k \in 1 .. Len(call.ret) - 1 :
              call.ret[k].y * BOARD_SIZE + call.ret[k].x
                 < call.ret[k + 1].y * BOARD_SIZE + call.ret[k + 1].x

\* getValidMoves has returned moves of two rows and two columns.
C9_Witness ==
    /\ call.op = "getValidMoves"
    /\ Len(call.ret) >= 3
    /\ \E j, k \in 1 .. Len(call.ret) :
          call.ret[j].y < call.ret[k].y /\ call.ret[j].x > call.ret[k].x

----------------------------------------------------------------------------
(* Move selection *)

Elements(seq) == {seq[k] : k \in 1 .. Len(seq)}

SetMax(S) == CHOOSE v \in S : \A w \in S : w <= v

SetMin(S) == CHOOSE v \in S : \A w \in S : v <= w

\* The first index of seq whose value under val is the largest.
FirstArgMax(val, n) ==
    CHOOSE k \in 1 .. n :
        /\ \A j \in 1 .. n : val[j] <= val[k]
        /\ \A j \in 1 .. (k - 1) : val[j] < val[k]

\* C5: getAIMove returns null exactly when getValidMoves is empty, and
\* otherwise an element of getValidMoves - the only one when there is one.
C5_MoveIsValidOrNone ==
    call.op = "getAIMove" =>
        LET vm == getValidMoves(board, call.player)
        IN  /\ (call.ret = null) <=> (Len(vm) = 0)
            /\ Len(vm) > 0 => call.ret \in Elements(vm)
            /\ Len(vm) = 1 => call.ret = vm[1]

\* At level 1 the only legal move of a board was returned.
C5_Witness ==
    /\ call.op = "getAIMove"
    /\ call.level = 1
    /\ Len(getValidMoves(board, call.player)) = 1
    /\ call.ret = getValidMoves(board, call.player)[1]

\* The depth-limited minimax value of b for root, toMove to move: the score of
\* a position is root's discs minus the opponent's; root's plies maximise it,
\* the opponent's minimise it.
RECURSIVE RootValue(_, _, _, _)
RootValue(b, toMove, root, depth) ==
    LET vm == getValidMoves(b, toMove)
    IN  IF depth = 0 \/ Len(vm) = 0
        THEN DiscsOf(b, root) - DiscsOf(b, Opponent(root))
        ELSE LET vals == {RootValue(makeMove(b, vm[k].x, vm[k].y, toMove),
                                    Opponent(toMove), root, depth - 1) :
                             k \in 1 .. Len(vm)}
             IN  IF toMove = root THEN SetMax(vals) ELSE SetMin(vals)

\* C6: at levels 3, 4, 5 getAIMove returns the first move of getValidMoves that
\* attains the minimax value of depth 1, 2, 3 scored from the acting player's
\* point of view (at level 3: the largest own-minus-opponent difference).
C6_MinimaxFromRootView ==
    (call.op = "getAIMove" /\ call.level \in 3 .. 5 /\ call.ret # null) =>
        LET vm == getValidMoves(board, call.player)
            val == [k \in 1 .. Len(vm) |->
                      RootValue(makeMove(board, vm[k].x, vm[k].y, call.player),
                                Opponent(call.player), call.player,
                                call.level - 3)]
        IN  call.ret = vm[FirstArgMax(val, Len(vm))]

\* C7: at level 2 getAIMove returns the move after which the mover has the
\* most discs, the first one in row-major order among several.
C7_GreedyFirstBest ==
    (call.op = "getAIMove" /\ call.level = 2 /\ call.ret # null) =>
        LET vm == getValidMoves(board, call.player)
            val == [k \in 1 .. Len(vm) |->
                      DiscsOf(makeMove(board, vm[k].x, vm[k].y, call.player),
                              call.player)]
        IN  call.ret = vm[FirstArgMax(val, Len(vm))]

\* Level 2 chose between moves of which a later one ties with the returned one
\* and an earlier one is worse.
C7_Witness ==
    /\ call.op = "getAIMove"
    /\ call.level = 2
    /\ call.ret # null
    /\ LET vm == getValidMoves(board, call.player)
           val == [k \in 1 .. Len(vm) |->
                     DiscsOf(makeMove(board, vm[k].x, vm[k].y, call.player),
                             call.player)]
           best == FirstArgMax(val, Len(vm))
       IN  /\ best > 1
           /\ \E j \in (best + 1) .. Len(vm) : val[j] = val[best]

\* The cells where player may legally move, by the rules stated on the board.
LegalCells(b, player) ==
    {c \in Idx \X Idx :
        b[c[2]][c[1]] = Empty /\ Capturing(b, c[1], c[2], player)}

----------------------------------------------------------------------------
(* Aliasing *)

\* C8: makeMove does not alter the board it is given - every row of the input
\* holds after the call what it held before - and the board it returns shares
\* no row with the input; getAIMove's greedy and minimax searches do not alter
\* their input board either.
C8_InputBoardUntouched ==
    /\ call.op \in {"makeMove", "getAIMove"} =>
          \A y \in Idx : heap[InputRows[y]] = board[y]
    /\ call.op = "makeMove" =>
          /\ \A y1, y2 \in Idx : call.ref[y1] # InputRows[y2]
          /\ \A y1, y2 \in Idx : y1 # y2 => call.ref[y1] # call.ref[y2]
          /\ Deref(heap, call.ref)
                = makeMove(board, call.x, call.y, call.player)
    /\ call.op = "getAIMove" =>
          call.ret = getAIMove(board, call.player, call.level, call.rnd)

\* makeMove has placed a disc on the board in memory and flipped another.
C8_Witness ==
    /\ call.op = "makeMove"
    /\ Cardinality({c \in Idx \X Idx :
          heap[call.ref[c[2]]][c[1]] # board[c[2]][c[1]]}) >= 2

----------------------------------------------------------------------------
(* The Game component's board *)

\* The last event was an accepted move: a click that passed isValidMove, or a
\* timer firing that applied a move of getAIMove.
MoveAccepted ==
    \/ call.op = "handleMove" /\ call.accepted
    \/ call.op = "timer" /\ call.move # null

\* C10: under every interleaving of clicks and timer firings the displayed
\* board never loses discs from one state to the next, and every accepted move
\* leaves it with exactly one disc more than it held just before the move.
C10_NoAcceptedMoveLost ==
    /\ call.op # "none" => Shown(board) >= call.before
    /\ MoveAccepted => Shown(board) = call.before + 1

\* C11: a click changes board or currentPlayer only while isPlayerTurn is
\* true, and the timer's move is computed on, and applied to, the displayed
\* board: a step of handleMove taken while isPlayerTurn is false leaves board
\* and currentPlayer as they were, and when the timer fires the board and the
\* player it works on are the displayed board and the player to move.
C11_ClicksOnlyOnHumanTurn ==
    [][/\ (call'.op = "handleMove" /\ ~isPlayerTurn) =>
              (board' = board /\ currentPlayer' = currentPlayer)
       /\ (timer.set /\ ~timer'.set) =>
              (timer.board = board /\ timer.currentPlayer = currentPlayer)]_vars

\* C13: when the AI timer fires, isPlayerTurn becomes true and the player to
\* move switches to the other colour; if getAIMove returned null for the AI's
\* colour the board is left unchanged, and if it returned a move the board
\* becomes makeMove of that move for the AI's colour.
C13_TimerPassesOrApplies ==
    [][(timer.set /\ ~timer'.set) =>
          /\ isPlayerTurn'
          /\ currentPlayer' = Opponent(currentPlayer)
          /\ call'.move = null => board' = board
          /\ call'.move # null =>
                board' = makeMove(board, call'.move.x, call'.move.y,
                                  timer.currentPlayer)]_vars

====
